---------------------------- MODULE Spec2Model ----------------------------
(***************************************************************************)
(* ThinkBot adaptive-quiz backend: the StudentProfile entity of main.py    *)
(* (counters, session records, engagement and learning-style inference,    *)
(* JSON persistence) and the request handlers of api/__init__.py           *)
(* (question selection, answer submission).                                *)
(*                                                                         *)
(* Numbers.  Python floats are modelled as exact rationals <<n, d>> with   *)
(* d > 0 in lowest terms; the decimal literals of the source (0.25, 1.1,   *)
(* ...) are the rationals they denote.  Response times are whole seconds.  *)
(* Text.  A Python str is a sequence of one-character strings.             *)
(***************************************************************************)
EXTENDS Integers, Sequences, FiniteSets, TLC

VARIABLES
    QUESTIONS,   \* api/__init__.py: the question bank, tier -> sequence of questions
    disk,        \* data/student_<name>.json: <<contents>>, or <<>> when there is no file
    profile,     \* the StudentProfile object of the current caller / request
    result,      \* what the last operation returned or raised
    requests,    \* the answer submissions in flight: where each one stands and what it holds
    other_files       \* data/student_<name>.json of the other students, by name

vars == <<QUESTIONS, disk, profile, result, requests, other_files>>

----------------------------------------------------------------------------
(* Exact rational arithmetic standing for Python float arithmetic.         *)

Abs(x) == IF x < 0 THEN -x ELSE x

RECURSIVE GCD(_, _)
GCD(a, b) == IF b = 0 THEN a ELSE GCD(b, a % b)

Frac(n, d) ==
    LET s == IF d < 0 THEN -1 ELSE 1
        g == GCD(Abs(n), Abs(d))
    IN  <<(s * n) \div g, (s * d) \div g>>

R(n) == <<n, 1>>

RAdd(a, b) == Frac(a[1] * b[2] + b[1] * a[2], a[2] * b[2])
RSub(a, b) == Frac(a[1] * b[2] - b[1] * a[2], a[2] * b[2])
RMul(a, b) == Frac(a[1] * b[1], a[2] * b[2])
RDiv(a, b) == Frac(a[1] * b[2], a[2] * b[1])
RLt(a, b) == a[1] * b[2] < b[1] * a[2]
RLe(a, b) == a[1] * b[2] <= b[1] * a[2]
RGt(a, b) == RLt(b, a)
RGe(a, b) == RLe(b, a)
RMax(a, b) == IF RLt(a, b) THEN b ELSE a
RMin(a, b) == IF RLt(b, a) THEN b ELSE a

RECURSIVE RSum(_)
RSum(s) ==
    IF s = <<>> THEN R(0)
    ELSE IF Len(s) = 1 THEN RAdd(s[1], R(0))
    ELSE RAdd(RSum(SubSeq(s, 1, Len(s) \div 2)),
              RSum(SubSeq(s, Len(s) \div 2 + 1, Len(s))))

----------------------------------------------------------------------------
(* Sequence helpers standing for Python slicing and comprehensions.        *)

\* s[-n:]
LastN(s, n) == IF Len(s) <= n THEN s ELSE SubSeq(s, Len(s) - n + 1, Len(s))

\* s[:-n]
DropLastN(s, n) == IF Len(s) <= n THEN <<>> ELSE SubSeq(s, 1, Len(s) - n)

\* [x[f] for x in s]
Field(s, f) == [i \in 1..Len(s) |-> s[i][f]]

RECURSIVE SumSeq(_)
SumSeq(s) ==
    IF s = <<>> THEN 0
    ELSE IF Len(s) = 1 THEN s[1]
    ELSE SumSeq(SubSeq(s, 1, Len(s) \div 2))
         + SumSeq(SubSeq(s, Len(s) \div 2 + 1, Len(s)))

CountCorrect(s) == Len(SelectSeq(s, LAMBDA x : x.correct))

MaxOf(s) == CHOOSE x \in {s[i] : i \in DOMAIN s} : \A i \in DOMAIN s : s[i] <= x

MinOf(s) == CHOOSE x \in {s[i] : i \in DOMAIN s} : \A i \in DOMAIN s : x <= s[i]

----------------------------------------------------------------------------
(* Text: a str is a sequence of one-character strings.                     *)

Upper == <<"A", "B", "C", "D", "E", "F", "G", "H", "I", "J", "K", "L", "M",
           "N", "O", "P", "Q", "R", "S", "T", "U", "V", "W", "X", "Y", "Z">>
LowerCase == <<"a", "b", "c", "d", "e", "f", "g", "h", "i", "j", "k", "l", "m",
           "n", "o", "p", "q", "r", "s", "t", "u", "v", "w", "x", "y", "z">>
Whitespace == {" ", "\t", "\n"}
\* the characters str.isdigit accepts: decimal digits and the superscript two of the table below
Digits == {"0", "1", "2", "3", "4", "5", "6", "7", "8", "9", "U+00B2"}

LowerChar(c) ==
    IF \E i \in 1..26 : Upper[i] = c
    THEN LowerCase[CHOOSE i \in 1..26 : Upper[i] = c]
    ELSE c

\* str.lower()
StrLower(s) == [i \in 1..Len(s) |-> LowerChar(s[i])]

RECURSIVE LStrip(_)
LStrip(s) == IF s # <<>> /\ Head(s) \in Whitespace THEN LStrip(Tail(s)) ELSE s

RECURSIVE RStrip(_)
RStrip(s) ==
    IF s # <<>> /\ s[Len(s)] \in Whitespace
    THEN RStrip(SubSeq(s, 1, Len(s) - 1))
    ELSE s

\* str.strip()
StrStrip(s) == RStrip(LStrip(s))

\* s.replace(c, '') for a single character c
StrRemove(s, c) == SelectSeq(s, LAMBDA x : x # c)

\* str.isdigit()
IsDigit(s) == s # <<>> /\ \A i \in 1..Len(s) : s[i] \in Digits

\* a in b  (substring test; the empty string is in every string)
StrIn(a, b) ==
    \E i \in 0..(Len(b) - Len(a)) : SubSeq(b, i + 1, i + Len(a)) = a

\* api/__init__.py, is_answer_correct: the table of accepted variations,
\* as a sequence of <<correct_key, variants>> in source order
variations ==
    <<
      <<<<"p", "a", "c", "i", "f", "i", "c", " ", "o", "c", "e", "a", "n">>,
        {<<"p", "a", "c", "i", "f", "i", "c">>,
         <<"p", "a", "c", "i", "f", "i", "c", " ", "o", "c", "e", "a", "n">>}>>,
      <<<<"a", "t", "l", "a", "n", "t", "i", "c", " ", "o", "c", "e", "a", "n">>,
        {<<"a", "t", "l", "a", "n", "t", "i", "c">>,
         <<"a", "t", "l", "a", "n", "t", "i", "c", " ", "o", "c", "e", "a", "n">>}>>,
      <<<<"i", "n", "d", "i", "a", "n", " ", "o", "c", "e", "a", "n">>,
        {<<"i", "n", "d", "i", "a", "n">>,
         <<"i", "n", "d", "i", "a", "n", " ", "o", "c", "e", "a", "n">>}>>,
      <<<<"a", "r", "c", "t", "i", "c", " ", "o", "c", "e", "a", "n">>,
        {<<"a", "r", "c", "t", "i", "c">>,
         <<"a", "r", "c", "t", "i", "c", " ", "o", "c", "e", "a", "n">>}>>,
      <<<<"s", "o", "u", "t", "h", "e", "r", "n", " ", "o", "c", "e", "a", "n">>,
        {<<"s", "o", "u", "t", "h", "e", "r", "n">>,
         <<"s", "o", "u", "t", "h", "e", "r", "n", " ", "o", "c", "e", "a", "n">>}>>,
      <<<<"n", "o", "r", "t", "h", " ", "a", "m", "e", "r", "i", "c", "a">>,
        {<<"n", "o", "r", "t", "h", " ", "a", "m", "e", "r", "i", "c", "a">>,
         <<"n", "o", "r", "t", "h", " ", "a", "m", "e", "r", "i", "c", "a", "n">>}>>,
      <<<<"s", "o", "u", "t", "h", " ", "a", "m", "e", "r", "i", "c", "a">>,
        {<<"s", "o", "u", "t", "h", " ", "a", "m", "e", "r", "i", "c", "a">>,
         <<"s", "o", "u", "t", "h", " ", "a", "m", "e", "r", "i", "c", "a", "n">>}>>,
      <<<<"u", "n", "i", "t", "e", "d", " ", "s", "t", "a", "t", "e", "s">>,
        {<<"u", "s", "a">>,
         <<"u", "s">>,
         <<"u", "n", "i", "t", "e", "d", " ", "s", "t", "a", "t", "e", "s">>,
         <<"a", "m", "e", "r", "i", "c", "a">>}>>,
      <<<<"u", "n", "i", "t", "e", "d", " ", "k", "i", "n", "g", "d", "o", "m">>,
        {<<"u", "k">>,
         <<"b", "r", "i", "t", "a", "i", "n">>,
         <<"u", "n", "i", "t", "e", "d", " ", "k", "i", "n", "g", "d", "o", "m">>,
         <<"e", "n", "g", "l", "a", "n", "d">>}>>,
      <<<<"2", "5", "U+03C0">>,
        {<<"2", "5", "p", "i">>,
         <<"2", "5", " ", "p", "i">>,
         <<"2", "5", "*", "U+03C0">>,
         <<"2", "5", " ", "*", " ", "U+03C0">>}>>,
      <<<<"3", "6", "U+03C0">>,
        {<<"3", "6", "p", "i">>,
         <<"3", "6", " ", "p", "i">>,
         <<"3", "6", "*", "U+03C0">>,
         <<"3", "6", " ", "*", " ", "U+03C0">>}>>,
      <<<<"1", "0", "U+03C0">>,
        {<<"1", "0", "p", "i">>,
         <<"1", "0", " ", "p", "i">>,
         <<"1", "0", "*", "U+03C0">>,
         <<"1", "0", " ", "*", " ", "U+03C0">>}>>,
      <<<<"a", "U+00B2", " ", "+", " ", "b", "U+00B2", " ", "=", " ", "c", "U+00B2">>,
        {<<"a", "^", "2", " ", "+", " ", "b", "^", "2", " ", "=", " ", "c", "^", "2">>,
         <<"a", " ", "s", "q", "u", "a", "r", "e", "d", " ", "p", "l", "u", "s", " ", "b", " ", "s", "q", "u", "a", "r", "e", "d", " ", "e", "q", "u", "a", "l", "s", " ", "c", " ", "s", "q", "u", "a", "r", "e", "d">>}>>,
      <<<<"0", ".", "6", "2", "5">>,
        {<<"6", "2", "5", "/", "1", "0", "0", "0">>,
         <<"5", "/", "8">>}>>,
      <<<<"5", "/", "6">>,
        {<<"1", "0", "/", "1", "2">>,
         <<"0", ".", "8", "3", "3">>}>>,
      <<<<"3", "2">>,
        {<<"2", "^", "5">>,
         <<"2", " ", "t", "o", " ", "t", "h", "e", " ", "p", "o", "w", "e", "r", " ", "o", "f", " ", "5">>}>>,
      <<<<"8", "1">>,
        {<<"3", "^", "4">>,
         <<"3", " ", "t", "o", " ", "t", "h", "e", " ", "p", "o", "w", "e", "r", " ", "o", "f", " ", "4">>}>>
    >>

----------------------------------------------------------------------------
(* main.py: StudentProfile                                                 *)

\* the data directory without the student's file; with it, disk = <<contents>>
NoFile == <<>>
None == "None"

\* the student every request of the model names
Student == "alice"
\* the students whose submissions run beside those of Student
OtherStudents == {"bob"}

\* datetime.now().isoformat(): an opaque non-empty stamp
Now == "now"

\* {} : a dict with no key
EmptyMap == [t \in {} |-> 0]

\* main.py, @dataclass StudentProfile: the field defaults and __post_init__
NewProfile(name) ==
    [ name                   |-> name,
      quizzes                |-> 0,
      correct                |-> 0,
      total_response_time    |-> 0,
      total_answer_changes   |-> 0,
      total_hints_used       |-> 0,
      total_skipped          |-> 0,
      quiz_sessions          |-> 0,
      learning_sessions      |-> <<>>,
      learning_style         |-> "unknown",
      preferred_difficulty   |-> "medium",
      engagement_score       |-> R(0),
      last_activity          |-> "",
      streak_days            |-> 0,
      improvement_trend      |-> R(0),
      session_frequency      |-> R(0),
      difficulty_progression |-> <<>>,
      topic_preferences      |-> EmptyMap ]

\* @dataclass LearningSession plus the "topic" and "skipped" keys
\* record_session adds to its dict
SessionData(question_id, difficulty, answer, correct, response_time, answer_changes, hints_used, topic, skipped) ==
    [ question_id    |-> question_id,
      difficulty     |-> difficulty,
      answer         |-> answer,
      correct        |-> correct,
      response_time  |-> response_time,
      answer_changes |-> answer_changes,
      hints_used     |-> hints_used,
      timestamp      |-> Now,
      topic          |-> topic,
      skipped        |-> skipped ]

accuracy_off_by_one(p) ==
    IF p.quizzes # 0 THEN Frac(p.correct, p.quizzes + 1) ELSE R(0)

accuracy(p) == IF p.quizzes # 0 THEN Frac(p.correct, p.quizzes) ELSE R(0)

average_response_time(p) ==
    IF p.quizzes # 0 THEN Frac(p.total_response_time, p.quizzes) ELSE R(0)

hesitation_score(p) ==
    IF p.quizzes # 0 THEN Frac(p.total_answer_changes, p.quizzes) ELSE R(0)

skip_rate(p) == IF p.quizzes # 0 THEN Frac(p.total_skipped, p.quizzes) ELSE R(0)

hint_dependency(p) ==
    IF p.quizzes # 0 THEN Frac(p.total_hints_used, p.quizzes) ELSE R(0)

recent_performance(p) ==
    IF Len(p.learning_sessions) < 2 THEN accuracy(p)
    ELSE LET recent_sessions == LastN(p.learning_sessions, 10)
         IN  Frac(CountCorrect(recent_sessions), Len(recent_sessions))

consistency_score_from_two_records(p) ==
    IF Len(p.learning_sessions) < 2 THEN R(50)
    ELSE LET recent_sessions == LastN(p.learning_sessions, 10)
             n == Len(recent_sessions)
             k == CountCorrect(recent_sessions)
             mean_acc == Frac(k, n)
             sq1 == RMul(RSub(R(1), mean_acc), RSub(R(1), mean_acc))
             sq0 == RMul(RSub(R(0), mean_acc), RSub(R(0), mean_acc))
             variance == RDiv(RAdd(RMul(R(k), sq1), RMul(R(n - k), sq0)), R(n))
         IN  RMax(R(0), RSub(R(100), RMul(variance, R(100))))

consistency_score(p) ==
    IF Len(p.learning_sessions) < 3 THEN R(50)
    ELSE LET recent_sessions == LastN(p.learning_sessions, 10)
             n == Len(recent_sessions)
             k == CountCorrect(recent_sessions)
             mean_acc == Frac(k, n)
             \* sum((acc - mean_acc) ** 2 for acc in accuracies) / len(accuracies)
             sq1 == RMul(RSub(R(1), mean_acc), RSub(R(1), mean_acc))
             sq0 == RMul(RSub(R(0), mean_acc), RSub(R(0), mean_acc))
             variance == RDiv(RAdd(RMul(R(k), sq1), RMul(R(n - k), sq0)), R(n))
         IN  RMax(R(0), RSub(R(100), RMul(variance, R(100))))

learning_momentum(p) ==
    IF Len(p.learning_sessions) < 5 THEN R(0)
    ELSE LET recent_sessions == LastN(p.learning_sessions, 5)
             earlier_sessions ==
                 IF Len(p.learning_sessions) >= 10
                 THEN SubSeq(p.learning_sessions, Len(p.learning_sessions) - 9,
                             Len(p.learning_sessions) - 5)
                 ELSE DropLastN(p.learning_sessions, 5)
         IN  IF earlier_sessions = <<>> THEN R(0)
             ELSE RMul(RSub(Frac(CountCorrect(recent_sessions), Len(recent_sessions)),
                            Frac(CountCorrect(earlier_sessions), Len(earlier_sessions))),
                       R(100))

\* engagement_level, lines 207-217: the time-efficiency score
TimeScore(avg_time) ==
    IF RLt(avg_time, R(15))
    THEN RAdd(R(60), RMul(RDiv(avg_time, R(15)), R(20)))
    ELSE IF RLe(avg_time, R(45))
    THEN RAdd(R(80), RMul(RDiv(RSub(R(45), avg_time), R(30)), R(20)))
    ELSE IF RLe(avg_time, R(90))
    THEN RSub(R(80), RMul(RDiv(RSub(avg_time, R(45)), R(45)), R(30)))
    ELSE RMax(R(20), RSub(R(50), RMul(RDiv(RSub(avg_time, R(90)), R(30)), R(10))))

\* engagement_level, lines 228-233: the adjustment for the number of sessions
SessionAdjusted(quizzes, engagement_score) ==
    IF quizzes < 10 THEN RMin(R(100), RMul(engagement_score, Frac(11, 10)))
    ELSE IF quizzes > 50 THEN RMul(engagement_score, Frac(95, 100))
    ELSE engagement_score

EngagementRaw_with_stored_trend(p) ==
    LET accuracy_score == RMul(accuracy(p), R(100))
        recent_performance_score == RMul(recent_performance(p), R(100))
        skip_penalty == RMul(skip_rate(p), R(50))
        hint_penalty == RMul(hint_dependency(p), R(30))
        hesitation_penalty == RMin(RMul(hesitation_score(p), R(25)), R(30))
        behavioral_score ==
            RMax(R(0), RSub(RSub(RSub(R(100), skip_penalty), hint_penalty),
                            hesitation_penalty))
        momentum_bonus == RMax(R(0), RMin(learning_momentum(p), R(20)))
        momentum_score == RAdd(R(50), momentum_bonus)
        time_score == TimeScore(average_response_time(p))
        engagement_score ==
            RAdd(RAdd(RAdd(RAdd(RMul(accuracy_score, Frac(25, 100)),
                                RMul(recent_performance_score, Frac(15, 100))),
                           RMul(behavioral_score, Frac(25, 100))),
                      RAdd(RMul(consistency_score(p), Frac(15, 100)),
                           RMul(momentum_score, Frac(5, 100)))),
                 RMul(time_score, Frac(15, 100)))
    IN  RMin(R(100), RMax(R(0), SessionAdjusted(p.quizzes,
                              RAdd(engagement_score, p.improvement_trend))))

\* engagement_level, lines 191-236: the value assigned to self.engagement_score
\* (only computed when quizzes >= 2)
EngagementRaw(p) ==
    LET accuracy_score == RMul(accuracy(p), R(100))
        recent_performance_score == RMul(recent_performance(p), R(100))
        skip_penalty == RMul(skip_rate(p), R(50))
        hint_penalty == RMul(hint_dependency(p), R(30))
        hesitation_penalty == RMin(RMul(hesitation_score(p), R(25)), R(30))
        behavioral_score ==
            RMax(R(0), RSub(RSub(RSub(R(100), skip_penalty), hint_penalty),
                            hesitation_penalty))
        momentum_bonus == RMax(R(0), RMin(learning_momentum(p), R(20)))
        momentum_score == RAdd(R(50), momentum_bonus)
        time_score == TimeScore(average_response_time(p))
        engagement_score ==
            RAdd(RAdd(RAdd(RAdd(RMul(accuracy_score, Frac(25, 100)),
                                RMul(recent_performance_score, Frac(15, 100))),
                           RMul(behavioral_score, Frac(25, 100))),
                      RAdd(RMul(consistency_score(p), Frac(15, 100)),
                           RMul(momentum_score, Frac(5, 100)))),
                 RMul(time_score, Frac(15, 100)))
    IN  RMin(R(100), RMax(R(0), SessionAdjusted(p.quizzes, engagement_score)))

\* engagement_level, lines 238-248: the thresholds
LevelOfScore(score) ==
    IF RGe(score, R(85)) THEN "highly_engaged"
    ELSE IF RGe(score, R(70)) THEN "engaged"
    ELSE IF RGe(score, R(55)) THEN "moderate"
    ELSE IF RGe(score, R(35)) THEN "struggling"
    ELSE "disengaged"

engagement_level_late(p) ==
    IF p.quizzes <= 2 THEN "learning" ELSE LevelOfScore(EngagementRaw(p))

\* the property engagement_level: the value it returns ...
engagement_level(p) ==
    IF p.quizzes < 2 THEN "learning" ELSE LevelOfScore(EngagementRaw(p))

\* ... and the profile it leaves behind (line 236 stores the score)
AfterEngagementRead(p) ==
    IF p.quizzes < 2 THEN p ELSE [p EXCEPT !.engagement_score = EngagementRaw(p)]

learning_pace(p) ==
    LET avg_time == average_response_time(p)
    IN  IF RLt(avg_time, R(20)) THEN "fast"
        ELSE IF RLt(avg_time, R(60)) THEN "moderate"
        ELSE "slow"

----------------------------------------------------------------------------
(* main.py: learning-style inference and record_session                    *)

VisualTopics == {"geometry", "colors", "patterns"}
WordTopics == {"geography", "language", "word_problems"}

\* _calculate_learning_style_scores, line 491: max(response_times) is the divisor
StyleDivisionByZero(p) ==
    LET recent_sessions == LastN(p.learning_sessions, 20)
    IN  /\ Len(recent_sessions) > 5
        /\ MaxOf(Field(recent_sessions, "response_time")) = 0

\* _calculate_learning_style_scores (defined when StyleDivisionByZero is false)
style_scores(p) ==
    LET recent_sessions == LastN(p.learning_sessions, 20)
        n == Len(recent_sessions)
        avg_rt == average_response_time(p)
        acc == accuracy(p)
        \* 1. visual
        visual_questions == SelectSeq(recent_sessions, LAMBDA s : s.topic \in VisualTopics)
        nv == Len(visual_questions)
        visual_accuracy == Frac(CountCorrect(visual_questions), nv)
        visual_avg_time == Frac(SumSeq(Field(visual_questions, "response_time")), nv)
        visual_hesitation == Frac(SumSeq(Field(visual_questions, "answer_changes")), nv)
        visual1 ==
            IF nv = 0 THEN R(0)
            ELSE RAdd(RAdd(RMul(visual_accuracy, Frac(4, 10)),
                           RMul(RMax(R(0), RDiv(RSub(R(60), visual_avg_time), R(60))),
                                Frac(3, 10))),
                      RMul(RMax(R(0), RDiv(RSub(R(2), visual_hesitation), R(2))),
                           Frac(3, 10)))
        \* 2. auditory
        word_questions == SelectSeq(recent_sessions, LAMBDA s : s.topic \in WordTopics)
        nw == Len(word_questions)
        auditory1 ==
            IF nw # 0 THEN RMul(Frac(CountCorrect(word_questions), nw), Frac(5, 10))
            ELSE RMul(acc, Frac(3, 10))
        response_times == Field(recent_sessions, "response_time")
        time_variance ==
            RDiv(RSum([i \in 1..n |-> RMul(RSub(R(response_times[i]), avg_rt),
                                           RSub(R(response_times[i]), avg_rt))]),
                 R(n))
        auditory2 ==
            IF n > 1
            THEN RAdd(auditory1,
                      RMul(RMax(R(0), RSub(R(1), RDiv(time_variance, R(1000)))),
                           Frac(4, 10)))
            ELSE auditory1
        \* 3. kinesthetic
        hint_usage_rate == hint_dependency(p)
        kin1 == RMul(RMin(hint_usage_rate, R(1)), Frac(4, 10))
        complex_questions == SelectSeq(recent_sessions, LAMBDA s : s.difficulty = "hard")
        nc == Len(complex_questions)
        kin2 ==
            IF nc # 0
            THEN RAdd(kin1, RMul(Frac(CountCorrect(complex_questions), nc), Frac(3, 10)))
            ELSE kin1
        avg_changes == Frac(SumSeq(Field(recent_sessions, "answer_changes")), n)
        kin3 ==
            IF RLe(Frac(1, 2), avg_changes) /\ RLe(avg_changes, R(2))
            THEN RAdd(kin2, Frac(3, 10))
            ELSE kin2
        \* 4. reading
        read1 == IF RGt(avg_rt, R(45)) THEN Frac(3, 10) ELSE R(0)
        read2 == IF RGt(acc, Frac(6, 10)) THEN RAdd(read1, RMul(acc, Frac(4, 10))) ELSE read1
        read3 == RAdd(read2, RMul(RMax(R(0), RSub(R(1), skip_rate(p))), Frac(3, 10)))
        \* 5. adjustments
        visual2 ==
            IF RLt(avg_rt, R(25)) /\ RGt(acc, Frac(7, 10))
            THEN RAdd(visual1, Frac(2, 10)) ELSE visual1
        read4 ==
            IF RGt(avg_rt, R(60)) /\ RGt(acc, Frac(6, 10))
            THEN RAdd(read3, Frac(2, 10)) ELSE read3
        kin4 ==
            IF RGt(hint_usage_rate, Frac(3, 10))
            THEN RAdd(kin3, Frac(2, 10)) ELSE kin3
        mx == MaxOf(response_times)
        mn == MinOf(response_times)
        auditory3 ==
            IF n > 5 /\ RGt(RSub(R(1), Frac(mx - mn, mx)), Frac(7, 10))
            THEN RAdd(auditory2, Frac(2, 10)) ELSE auditory2
    IN  IF n = 0
        THEN [visual |-> R(0), auditory |-> R(0), kinesthetic |-> R(0), reading |-> R(0)]
        ELSE [visual |-> visual2, auditory |-> auditory3,
              kinesthetic |-> kin4, reading |-> read4]

PrimaryStyle_without_visual_test(sc) ==
    IF RGt(sc.auditory, sc.kinesthetic) /\ RGt(sc.auditory, sc.reading)
    THEN "auditory"
    ELSE IF RGt(sc.kinesthetic, sc.reading)
    THEN "kinesthetic"
    ELSE "reading"

\* _update_learning_style, lines 390-398: the comparison chain
PrimaryStyle(sc) ==
    IF RGt(sc.visual, sc.auditory) /\ RGt(sc.visual, sc.kinesthetic)
       /\ RGt(sc.visual, sc.reading)
    THEN "visual"
    ELSE IF RGt(sc.auditory, sc.kinesthetic) /\ RGt(sc.auditory, sc.reading)
    THEN "auditory"
    ELSE IF RGt(sc.kinesthetic, sc.reading)
    THEN "kinesthetic"
    ELSE "reading"

StyleThresholdReached_at_five(p) == Len(p.learning_sessions) >= 5

\* _update_learning_style, line 384: the threshold below which it returns at once
StyleThresholdReached(p) == Len(p.learning_sessions) >= 10

\* _update_learning_style (when it does not raise)
_update_learning_style(p) ==
    IF ~StyleThresholdReached(p) THEN p
    ELSE [p EXCEPT !.learning_style = PrimaryStyle(style_scores(p))]

_update_improvement_trend_as_recent_accuracy(p) ==
    IF Len(p.learning_sessions) < 10 THEN [p EXCEPT !.improvement_trend = R(0)]
    ELSE LET recent_sessions == LastN(p.learning_sessions, 5)
         IN  [p EXCEPT !.improvement_trend =
                 RMul(Frac(CountCorrect(recent_sessions), Len(recent_sessions)), R(100))]

_update_improvement_trend(p) ==
    IF Len(p.learning_sessions) < 10 THEN [p EXCEPT !.improvement_trend = R(0)]
    ELSE LET recent_sessions == LastN(p.learning_sessions, 5)
             previous_sessions == SubSeq(p.learning_sessions,
                                         Len(p.learning_sessions) - 9,
                                         Len(p.learning_sessions) - 5)
         IN  [p EXCEPT !.improvement_trend =
                 RMul(RSub(Frac(CountCorrect(recent_sessions), Len(recent_sessions)),
                           Frac(CountCorrect(previous_sessions), Len(previous_sessions))),
                      R(100))]

_update_engagement_score(p) ==
    IF p.quizzes = 0 THEN [p EXCEPT !.engagement_score = R(0)]
    ELSE LET accuracy_factor == accuracy(p)
             time_factor ==
                 RMax(R(0), RSub(R(1), RDiv(average_response_time(p), R(120))))
             consistency_factor == RSub(R(1), RDiv(hesitation_score(p), R(3)))
         IN  [p EXCEPT !.engagement_score =
                 RAdd(RAdd(RMul(accuracy_factor, Frac(5, 10)),
                           RMul(time_factor, Frac(3, 10))),
                      RMul(consistency_factor, Frac(2, 10)))]

TopicEntryAfter_always_correct(tp, topic, correct, response_time) ==
    LET old == IF topic \in DOMAIN tp THEN tp[topic]
               ELSE [total |-> 0, correct |-> 0, avg_time |-> R(0)]
        total == old.total + 1
    IN  [ total    |-> total,
          correct  |-> old.correct + 1,
          avg_time |-> RDiv(RAdd(RMul(old.avg_time, R(total - 1)), R(response_time)),
                            R(total)) ]

\* record_session, lines 329-339: the topic preference entry of `topic`
TopicEntryAfter(tp, topic, correct, response_time) ==
    LET old == IF topic \in DOMAIN tp THEN tp[topic]
               ELSE [total |-> 0, correct |-> 0, avg_time |-> R(0)]
        total == old.total + 1
    IN  [ total    |-> total,
          correct  |-> IF correct THEN old.correct + 1 ELSE old.correct,
          avg_time |-> RDiv(RAdd(RMul(old.avg_time, R(total - 1)), R(response_time)),
                            R(total)) ]

ProgressionAfter_keeps_oldest(dp, difficulty) ==
    IF Len(dp) >= 20 THEN dp ELSE Append(dp, difficulty)

\* record_session, lines 341-344
ProgressionAfter(dp, difficulty) == LastN(Append(dp, difficulty), 20)

Appended_skips_uncounted(p, question_id, difficulty, answer, correct, response_time, answer_changes, hints_used, topic, skipped) ==
    [p EXCEPT
       !.learning_sessions = Append(@, SessionData(question_id, difficulty, answer,
                                 correct, response_time, answer_changes,
                                 hints_used, topic, skipped)),
       !.quizzes = @ + 1,
       !.total_response_time = @ + response_time,
       !.total_answer_changes = @ + answer_changes,
       !.total_hints_used = @ + hints_used,
       !.correct = IF correct THEN @ + 1 ELSE @,
       !.topic_preferences =
           [t \in DOMAIN @ \cup {topic} |->
               IF t = topic THEN TopicEntryAfter(@, topic, correct, response_time)
               ELSE @[t]],
       !.difficulty_progression = ProgressionAfter(@, difficulty)]

\* record_session, lines 300-344: the append and the counters
Appended(p, question_id, difficulty, answer, correct, response_time, answer_changes, hints_used, topic, skipped) ==
    [p EXCEPT
       !.learning_sessions = Append(@, SessionData(question_id, difficulty, answer,
                                 correct, response_time, answer_changes,
                                 hints_used, topic, skipped)),
       !.quizzes = @ + 1,
       !.total_response_time = @ + response_time,
       !.total_answer_changes = @ + answer_changes,
       !.total_hints_used = @ + hints_used,
       !.correct = IF correct THEN @ + 1 ELSE @,
       !.total_skipped = IF skipped THEN @ + 1 ELSE @,
       !.topic_preferences =
           [t \in DOMAIN @ \cup {topic} |->
               IF t = topic THEN TopicEntryAfter(@, topic, correct, response_time)
               ELSE @[t]],
       !.difficulty_progression = ProgressionAfter(@, difficulty)]

\* record_session: [p |-> the object afterwards, raised |-> the exception or None,
\* saved |-> whether save() ran].  _update_learning_style raises ZeroDivisionError
\* after the object was changed and before save().
record_session(p, question_id, difficulty, answer, correct, response_time, answer_changes, hints_used, topic, skipped) ==
    LET p1 == Appended(p, question_id, difficulty, answer, correct, response_time,
                       answer_changes, hints_used, topic, skipped)
    IN  IF StyleThresholdReached(p1) /\ StyleDivisionByZero(p1)
        THEN [p |-> p1, raised |-> "ZeroDivisionError", saved |-> FALSE]
        ELSE [p |-> [_update_engagement_score(
                        _update_improvement_trend(
                          _update_learning_style(p1)))
                     EXCEPT !.last_activity = Now],
              raised |-> None, saved |-> TRUE]

\* record: the legacy entry point
record(p, correct) ==
    record_session(p, 0, "unknown", <<>>, correct, 0, 0, 0, "general", FALSE)

end_quiz_session(p) ==
    [p EXCEPT !.quiz_sessions = @ + 1, !.last_activity = Now]

\* JSON values, as json.dump writes them and json.load reads them
JsonNumber(x) == [json |-> "number", v |-> x]
\* a float: one the model holds as a fraction, and one it holds as a whole number
JsonFloat(x) == [json |-> "float", v |-> x]
JsonWholeFloat(n) == [json |-> "whole float", v |-> n]
JsonString(s) == [json |-> "string", v |-> s]
JsonBoolean(b) == [json |-> "boolean", v |-> b]
JsonArray(s) == [json |-> "array", v |-> s]
JsonObject(f) == [json |-> "object", v |-> f]

session_json_without_added_keys(s) ==
    JsonObject([ question_id    |-> JsonNumber(s.question_id),
                 difficulty     |-> JsonString(s.difficulty),
                 answer         |-> JsonString(s.answer),
                 correct        |-> JsonBoolean(s.correct),
                 response_time  |-> JsonWholeFloat(s.response_time),
                 answer_changes |-> JsonNumber(s.answer_changes),
                 hints_used     |-> JsonNumber(s.hints_used),
                 timestamp      |-> JsonString(s.timestamp) ])

\* json.dump of one element of learning_sessions: the dict record_session built
session_json(s) ==
    JsonObject([ question_id    |-> JsonNumber(s.question_id),
                 difficulty     |-> JsonString(s.difficulty),
                 answer         |-> JsonString(s.answer),
                 correct        |-> JsonBoolean(s.correct),
                 response_time  |-> JsonWholeFloat(s.response_time),
                 answer_changes |-> JsonNumber(s.answer_changes),
                 hints_used     |-> JsonNumber(s.hints_used),
                 timestamp      |-> JsonString(s.timestamp),
                 topic          |-> JsonString(s.topic),
                 skipped        |-> JsonBoolean(s.skipped) ])

\* json.dump of one value of topic_preferences
topic_json(e) ==
    JsonObject([ total    |-> JsonNumber(e.total),
                 correct  |-> JsonNumber(e.correct),
                 avg_time |-> JsonFloat(e.avg_time) ])

\* save, line 268: json.dump(asdict(self), fh); asdict lists every field of
\* the dataclass
json_dump(p) ==
    JsonObject(
      [ name                   |-> JsonString(p.name),
        quizzes                |-> JsonNumber(p.quizzes),
        correct                |-> JsonNumber(p.correct),
        total_response_time    |-> JsonWholeFloat(p.total_response_time),
        total_answer_changes   |-> JsonNumber(p.total_answer_changes),
        total_hints_used       |-> JsonNumber(p.total_hints_used),
        total_skipped          |-> JsonNumber(p.total_skipped),
        quiz_sessions          |-> JsonNumber(p.quiz_sessions),
        learning_sessions      |->
            JsonArray([i \in 1..Len(p.learning_sessions) |->
                          session_json(p.learning_sessions[i])]),
        learning_style         |-> JsonString(p.learning_style),
        preferred_difficulty   |-> JsonString(p.preferred_difficulty),
        engagement_score       |-> JsonFloat(p.engagement_score),
        last_activity          |-> JsonString(p.last_activity),
        streak_days            |-> JsonNumber(p.streak_days),
        improvement_trend      |-> JsonFloat(p.improvement_trend),
        session_frequency      |-> JsonFloat(p.session_frequency),
        difficulty_progression |->
            JsonArray([i \in 1..Len(p.difficulty_progression) |->
                          JsonString(p.difficulty_progression[i])]),
        topic_preferences      |->
            JsonObject([t \in DOMAIN p.topic_preferences |->
                           topic_json(p.topic_preferences[t])]) ])

\* load, line 275: json.load(fh) -- numbers, strings and booleans as written,
\* arrays as lists, objects as dicts
RECURSIVE json_load(_)
json_load(j) ==
    IF j.json = "array" THEN [i \in 1..Len(j.v) |-> json_load(j.v[i])]
    ELSE IF j.json = "object" THEN [k \in DOMAIN j.v |-> json_load(j.v[k])]
    ELSE j.v

\* save: the file written by json.dump, held as the dict json.load reads from it
save(p) == <<json_load(json_dump(p))>>

CompatDefaults_fresh_quiz_sessions ==
    [ learning_sessions    |-> <<>>,
      learning_style       |-> "unknown",
      preferred_difficulty |-> "medium",
      quiz_sessions        |-> 0,
      engagement_score     |-> R(0),
      last_activity        |-> "" ]

\* load, lines 277-290: the keys filled in when the file lacks them
CompatDefaults ==
    [ learning_sessions    |-> <<>>,
      learning_style       |-> "unknown",
      preferred_difficulty |-> "medium",
      quiz_sessions        |-> 1,
      engagement_score     |-> R(0),
      last_activity        |-> "" ]

load_with_compat_quiz_session(file, name) ==
    IF file = NoFile THEN [NewProfile(name) EXCEPT !.quiz_sessions = CompatDefaults.quiz_sessions]
    ELSE [f \in DOMAIN NewProfile(name) |->
             IF f \in DOMAIN file[1] THEN file[1][f]
             ELSE IF f \in DOMAIN CompatDefaults THEN CompatDefaults[f]
             ELSE NewProfile(name)[f]]

\* load: cls(**data) after the defaults above; any other missing field takes
\* its dataclass default.  (The files of the model are written by save.)
load(file, name) ==
    IF file = NoFile THEN NewProfile(name)
    ELSE [f \in DOMAIN NewProfile(name) |->
             IF f \in DOMAIN file[1] THEN file[1][f]
             ELSE IF f \in DOMAIN CompatDefaults THEN CompatDefaults[f]
             ELSE NewProfile(name)[f]]

----------------------------------------------------------------------------
(* api/__init__.py: the question bank and select_question                  *)

Levels == <<"easy", "medium", "hard">>

\* QUESTION_INDEX: every question of the bank, with its tier as "difficulty"
QUESTION_INDEX(bank) ==
    UNION {{[id |-> bank[Levels[l]][i].id, answer |-> bank[Levels[l]][i].answer,
             topic |-> bank[Levels[l]][i].topic, difficulty |-> Levels[l]] :
               i \in 1..Len(bank[Levels[l]])} : l \in 1..3}

\* qid in QUESTION_INDEX
QuestionKnown(bank, qid) == \E e \in QUESTION_INDEX(bank) : e.id = qid

\* QUESTION_INDEX[qid]
QuestionIndexGet(bank, qid) == CHOOSE e \in QUESTION_INDEX(bank) : e.id = qid

\* `if topic:` -- None and the empty string select no topic
TopicGiven(topic) == topic # None /\ topic # ""

\* [q for q in qs if q.get('topic') == topic]
TopicFilter(qs, topic) == SelectSeq(qs, LAMBDA q : q.topic = topic)

\* select_question, lines 49-51
RecentSessions(p) == LastN(p.learning_sessions, 5)

RecentAccuracy(p) ==
    LET recent_sessions == RecentSessions(p)
    IN  IF recent_sessions # <<>>
        THEN Frac(CountCorrect(recent_sessions), Len(recent_sessions))
        ELSE accuracy(p)

ChooseLevel_without_slow_rule(engagement, pace, recent_accuracy) ==
    IF engagement = "struggling" \/ RLt(recent_accuracy, Frac(3, 10)) THEN "easy"
    ELSE IF engagement = "highly_engaged" /\ RGt(recent_accuracy, Frac(8, 10)) THEN "hard"
    ELSE IF pace = "fast" /\ RGt(recent_accuracy, Frac(7, 10)) THEN "hard"
    ELSE "medium"

\* select_question, lines 57-67
ChooseLevel(engagement, pace, recent_accuracy) ==
    IF engagement = "struggling" \/ RLt(recent_accuracy, Frac(3, 10)) THEN "easy"
    ELSE IF engagement = "highly_engaged" /\ RGt(recent_accuracy, Frac(8, 10)) THEN "hard"
    ELSE IF pace = "fast" /\ RGt(recent_accuracy, Frac(7, 10)) THEN "hard"
    ELSE IF pace = "slow" /\ RLt(recent_accuracy, Frac(6, 10)) THEN "easy"
    ELSE "medium"

\* select_question, lines 69-85: the pool and the tier after the topic filter
AfterTopic(bank, level, topic) ==
    IF ~TopicGiven(topic) THEN [level |-> level, available |-> bank[level]]
    ELSE IF TopicFilter(bank[level], topic) # <<>>
    THEN [level |-> level, available |-> TopicFilter(bank[level], topic)]
    ELSE LET others == SelectSeq(Levels, LAMBDA o :
                           o # level /\ TopicFilter(bank[o], topic) # <<>>)
         IN  IF others = <<>> THEN [level |-> level, available |-> bank[level]]
             ELSE [level |-> others[1],
                   available |-> TopicFilter(bank[others[1]], topic)]

\* select_question, line 88: recent_sessions is already the last five records,
\* and a question id of 0 is dropped by the truth test
RecentQuestionIds(p) ==
    LET window == LastN(RecentSessions(p), 10)
    IN  {window[i].question_id : i \in {j \in 1..Len(window) : window[j].question_id # 0}}

NotRecent(qs, ids) == SelectSeq(qs, LAMBDA q : q.id \notin ids)

\* generate_new_questions_auto followed by load_questions: select_question passes
\* call_llm a str where it takes a list of messages, so call_llm either returns
\* "[Gemini API key not set]", which json.loads rejects, or raises TypeError on
\* m["role"]; both are swallowed, nothing is added and the bank file is reread
\* as it was.
AfterGeneration(bank, topic, level) == bank

\* select_question, lines 95-109: the pool is rebuilt when fewer than 5 remain
Replenished(bank, available, topic, level, ids) ==
    IF Len(available) < 5
    THEN LET bank2 == AfterGeneration(bank, IF TopicGiven(topic) THEN topic ELSE "general", level)
             again == IF TopicGiven(topic) THEN TopicFilter(bank2[level], topic)
                      ELSE bank2[level]
         IN  NotRecent(again, ids)
    ELSE available

\* select_question up to the random choice: the tier and the final pool
\* select_question, lines 92-93 and 112-113: an empty pool becomes the whole tier
OrWholeTier(bank, level, available) ==
    IF available = <<>> THEN bank[level] ELSE available

\* select_question, lines 87-113: from the pool t after the topic filter and the
\* recent ids to the tier and the final pool
PoolAfterExclusion(bank, t, topic, ids) ==
    [level |-> t.level,
     available |->
        OrWholeTier(bank, t.level,
            Replenished(bank,
                        OrWholeTier(bank, t.level, NotRecent(t.available, ids)),
                        topic, t.level, ids))]

CandidatePool(bank, p, topic) ==
    PoolAfterExclusion(bank,
        AfterTopic(bank,
                   ChooseLevel(engagement_level(p), learning_pace(p), RecentAccuracy(p)),
                   topic),
        topic, RecentQuestionIds(p))

----------------------------------------------------------------------------
(* api/__init__.py: submit_answer                                          *)

\* is_answer_correct, lines 151-152: .strip().lower()
Clean(s) == StrLower(StrStrip(s))

Numeric(s) == IsDigit(StrRemove(StrRemove(s, "."), "-"))

is_answer_correct(user_answer, correct_answer) ==
    LET user_clean == Clean(user_answer)
        correct_clean == Clean(correct_answer)
    IN  \/ user_clean = correct_clean
        \/ /\ ~(Numeric(user_clean) \/ Numeric(correct_clean))
           /\ (StrIn(correct_clean, user_clean) \/ StrIn(user_clean, correct_clean))
        \/ \E i \in 1..Len(variations) :
              \/ correct_clean = variations[i][1] /\ user_clean \in variations[i][2]
              \/ /\ correct_clean # variations[i][1]
                 /\ user_clean = variations[i][1]
                 /\ correct_clean \in variations[i][2]

\* payload.answer.lower().strip() == "skip" or ... == ""
IsSkip(answer) ==
    StrStrip(StrLower(answer)) \in {<<"s", "k", "i", "p">>, <<>>}

\* determine_next_action, lines 281-300: the action for the level and pace read
NextAction(engagement, pace, correct) ==
    IF engagement = "struggling"
    THEN IF correct THEN "encouraged_practice" ELSE "guided_learning"
    ELSE IF engagement = "highly_engaged"
    THEN IF correct THEN "challenge_mode" ELSE "focused_review"
    ELSE IF pace = "fast" /\ correct THEN "accelerated_learning"
    ELSE IF pace = "slow" /\ ~correct THEN "reinforcement"
    ELSE "continue_learning"

determine_next_action(p, correct) ==
    NextAction(engagement_level(p), learning_pace(p), correct)

\* main.py, call_llm on a list of messages: what the environment lets it return
LlmOutcomes == {"no_key", "request_failed", "text"}

call_llm(outcome) ==
    IF outcome = "no_key" THEN "[Gemini API key not set]"
    ELSE IF outcome = "request_failed" THEN "[Gemini request failed: ...]"
    ELSE "feedback text"

\* select_question, lines 115-116: random.choice over the final pool sel, and the
\* difficulty label put on the question chosen
RandomChoice(sel) ==
    IF sel.available = <<>>
    THEN {[raised |-> "IndexError", level |-> sel.level]}
    ELSE {[raised |-> None, level |-> sel.level,
           q |-> [id |-> sel.available[i].id,
                  answer |-> sel.available[i].answer,
                  topic |-> sel.available[i].topic,
                  difficulty |-> sel.level]] : i \in 1..Len(sel.available)}

\* select_question: every value random.choice may hand back, as
\* [raised, level, q]; IndexError when the final pool is empty
select_question(bank, p, topic) ==
    RandomChoice(CandidatePool(bank, p, topic))

\* GET /question: load, then select_question; the outcomes as
\* [profile, disk, result]
get_question(bank, file, topic) ==
    LET p0 == load(file, Student)
        p1 == AfterEngagementRead(p0)
    IN  {[profile |-> p1, disk |-> file,
          result |-> IF s.raised # None
                     THEN [op |-> "get_question", status |-> 500,
                           raised |-> s.raised, topic |-> topic, level |-> s.level]
                     ELSE [op |-> "get_question", status |-> 200, raised |-> None,
                           topic |-> topic, level |-> s.level, q |-> s.q]] :
           s \in select_question(bank, p0, topic)}

UnknownQuestion_touching_file(p0, file, payload) ==
    [profile |-> p0, disk |-> save(p0),
     result |-> [op |-> "submit_answer", question_id |-> payload.question_id,
                 status |-> 404, raised |-> "HTTPException"]]

\* submit_answer, lines 144-147: the question id is not in QUESTION_INDEX;
\* p0 is the profile just loaded
UnknownQuestion(p0, file, payload) ==
    [profile |-> p0, disk |-> file,
     result |-> [op |-> "submit_answer", question_id |-> payload.question_id,
                 status |-> 404, raised |-> "HTTPException"]]

\* submit_answer, lines 219-234: the response built after record_session, whose
\* outcome is r
AnswerResponse(file, payload, correct, r, llm) ==
    IF r.raised # None
    THEN [profile |-> r.p, disk |-> file,
          result |-> [op |-> "submit_answer",
                      question_id |-> payload.question_id,
                      status |-> 500, raised |-> r.raised]]
    ELSE [profile |-> AfterEngagementRead(r.p), disk |-> save(r.p),
          result |-> [op |-> "submit_answer",
                      question_id |-> payload.question_id,
                      status |-> 200, raised |-> None,
                      correct |-> correct,
                      feedback |-> call_llm(llm),
                      accuracy |-> accuracy(r.p),
                      engagement_level |-> engagement_level(r.p),
                      learning_style |-> r.p.learning_style,
                      next_action |-> determine_next_action(r.p, correct)]]

\* submit_answer, lines 204-217: grading and record_session for the question q
Graded(p0, file, payload, q, correct, llm) ==
    AnswerResponse(file, payload, correct,
        record_session(p0, payload.question_id, q.difficulty,
                       payload.answer, correct, payload.response_time,
                       payload.answer_changes, payload.hints_used,
                       q.topic, IsSkip(payload.answer)),
        llm)

\* POST /answer: the outcome as [profile, disk, result]
submit_answer(bank, file, payload, llm) ==
    LET p0 == load(file, payload.student)
    IN  IF ~QuestionKnown(bank, payload.question_id)
        THEN UnknownQuestion(p0, file, payload)
        ELSE LET q == QuestionIndexGet(bank, payload.question_id)
             IN  Graded(p0, file, payload, q,
                        is_answer_correct(payload.answer, q.answer), llm)

----------------------------------------------------------------------------
(* Bounds and inputs                                                       *)

\* session records per profile in Spec and SpecAny
MaxSessions == 2
\* session records per profile in SpecLong
MaxLongSessions == 10
\* closed quiz sessions per profile
MaxQuizSessions == 1

\* the longest history of the runs that overflow difficulty_progression
MaxProgressSessions == 22

Q1 == [id |-> 1, answer |-> <<"4">>, topic |-> "geometry"]
Q2 == [id |-> 2, answer |-> <<"P", "a", "r", "i", "s">>, topic |-> "geography"]
Q3 == [id |-> 3, answer |-> <<"5", "/", "8">>, topic |-> "fractions"]
Q4 == [id |-> 4, answer |-> <<"P", "a", "c", "i", "f", "i", "c", " ", "O", "c", "e", "a", "n">>,
       topic |-> "geography"]

\* data/questions.json: a bank with every tier filled, and one with an empty tier
BankFull == [easy |-> <<Q1, Q2>>, medium |-> <<Q3>>, hard |-> <<Q4>>]
BankGap == [easy |-> <<Q1, Q2>>, medium |-> <<>>, hard |-> <<Q4>>]
Banks == {BankFull, BankGap}

\* the topic parameter of GET /question
Topics == {None, "geometry", "geography", "history"}

Payload(question_id, answer, response_time, answer_changes, hints_used) ==
    [ student |-> Student, question_id |-> question_id, answer |-> answer,
      response_time |-> response_time, answer_changes |-> answer_changes,
      hints_used |-> hints_used ]

\* AnswerPayload values with non-negative measurements
Payloads ==
    { Payload(1, <<"4">>, 10, 0, 0),
      Payload(1, <<"5">>, 120, 4, 1),
      Payload(2, <<" ", "P", "A", "R", "I", "S", " ">>, 30, 0, 0),
      Payload(2, <<"s", "k", "i", "p">>, 0, 0, 0),
      Payload(3, <<"0", ".", "6", "2", "5">>, 90, 2, 0),
      Payload(4, <<"p", "a", "c", "i", "f", "i", "c">>, 60, 1, 1),
      Payload(4, <<>>, 45, 0, 0),
      Payload(99, <<"4">>, 30, 0, 0) }

\* AnswerPayload declares plain float and int fields: negative values pass validation
AnyPayloads == Payloads \cup { Payload(1, <<"5">>, -30, -1, -1) }

\* submissions answered in no time at all
ZeroPayloads == { Payload(1, <<"4">>, 0, 0, 0) }

\* a profile as an earlier session of the program saved it
SavedProfile ==
    end_quiz_session(end_quiz_session(
        record_session(NewProfile(Student), 1, "easy", <<"4">>, TRUE, 10, 0, 0,
                       "geometry", FALSE).p))

\* the keys load fills in itself (lines 277-290), and one it leaves to the dataclass
NewerFields ==
    {"learning_sessions", "learning_style", "preferred_difficulty", "quiz_sessions",
     "engagement_score", "last_activity", "topic_preferences"}

\* files written before some fields existed: the saved profile without some of
\* the newer keys, without any one key but the name, or with the name alone
LegacyFiles ==
    LET data == save(SavedProfile)[1]
        keeps == {DOMAIN data \ S : S \in SUBSET NewerFields}
                   \cup {DOMAIN data \ {f} : f \in DOMAIN data \ {"name"}}
                   \cup {{"name"}}
    IN  {[f \in keep |-> data[f]] : keep \in keeps}

\* the submissions of the long histories
LongPayloads ==
    { Payload(1, <<"4">>, 10, 0, 0),
      Payload(4, <<"a", "t", "l", "a", "s">>, 120, 1, 1) }

----------------------------------------------------------------------------
(* State machine                                                           *)

\* the two submissions that may be in flight at once
Requests == {1, 2}

Init ==
    /\ QUESTIONS \in Banks
    /\ disk = NoFile
    /\ profile = NewProfile(Student)
    /\ result = [op |-> "init"]
    /\ requests = [r \in Requests |-> [pc |-> "idle"]]
    /\ other_files = [student \in OtherStudents |-> NoFile]

\* StudentProfile.load(Student)
Load ==
    /\ profile' = load(disk, Student)
    /\ result' = [op |-> "load"]
    /\ UNCHANGED <<QUESTIONS, disk, requests, other_files>>

\* profile.record(correct), the legacy entry point, on the object at hand
Record(correct, max) ==
    /\ Len(profile.learning_sessions) < max
    /\ \E r \in {record(profile, correct)} :
          /\ profile' = r.p
          /\ disk' = IF r.saved THEN save(r.p) ELSE disk
          /\ result' = [op |-> "record", raised |-> r.raised]
    /\ UNCHANGED <<QUESTIONS, requests, other_files>>

\* profile.end_quiz_session() on the object at hand
EndQuizSession ==
    /\ profile.quiz_sessions < MaxQuizSessions
    /\ profile' = end_quiz_session(profile)
    /\ disk' = save(profile')
    /\ result' = [op |-> "end_quiz_session"]
    /\ UNCHANGED <<QUESTIONS, requests, other_files>>

\* a read of profile.engagement_level on the object at hand
ReadEngagementLevel ==
    /\ profile' = AfterEngagementRead(profile)
    /\ result' = [op |-> "engagement_level", value |-> engagement_level(profile)]
    /\ UNCHANGED <<QUESTIONS, disk, requests, other_files>>

\* GET /question
GetQuestion(topic) ==
    /\ \E o \in get_question(QUESTIONS, disk, topic) :
          /\ profile' = o.profile
          /\ disk' = o.disk
          /\ result' = o.result
    /\ UNCHANGED <<QUESTIONS, requests, other_files>>

\* POST /answer
SubmitAnswer(payload, llm, max) ==
    /\ Len(load(disk, Student).learning_sessions) < max
    /\ \E o \in {submit_answer(QUESTIONS, disk, payload, llm)} :
          /\ profile' = o.profile
          /\ disk' = o.disk
          /\ result' = o.result
    /\ UNCHANGED <<QUESTIONS, requests, other_files>>

\* POST /end-quiz-session: load, then end_quiz_session
EndQuizSessionRequest ==
    /\ load(disk, Student).quiz_sessions < MaxQuizSessions
    /\ profile' = end_quiz_session(load(disk, Student))
    /\ disk' = save(profile')
    /\ result' = [op |-> "end_quiz_session_request", status |-> 200,
                  quiz_sessions |-> profile'.quiz_sessions]
    /\ UNCHANGED <<QUESTIONS, requests, other_files>>

Step(payloads, llms, max) ==
    \/ Load
    \/ \E correct \in BOOLEAN : Record(correct, max)
    \/ EndQuizSession
    \/ ReadEngagementLevel
    \/ \E topic \in Topics : GetQuestion(topic)
    \/ \E payload \in payloads, llm \in llms : SubmitAnswer(payload, llm, max)
    \/ EndQuizSessionRequest

\* requests whose measurements are non-negative, in an environment without
\* GEMINI_API_KEY
Next == Step(Payloads, {"no_key"}, MaxSessions)

Spec == Init /\ [][Next]_vars

\* requests with any measurements the payload model accepts, and any outcome
\* of the call to Gemini
NextAny == Step(AnyPayloads, LlmOutcomes, MaxSessions)

SpecAny == Init /\ [][NextAny]_vars

\* histories of the legacy entry point and of submissions answered in no time
NextZero ==
    \/ \E payload \in ZeroPayloads : SubmitAnswer(payload, "no_key", MaxLongSessions)
    \/ Record(TRUE, MaxLongSessions)

SpecZero == Init /\ [][NextZero]_vars

\* a data directory that holds a file of an earlier version of the program
InitLegacy ==
    /\ QUESTIONS = BankFull
    /\ disk \in {<<file>> : file \in LegacyFiles}
    /\ profile = NewProfile(Student)
    /\ result = [op |-> "init"]
    /\ requests = [r \in Requests |-> [pc |-> "idle"]]
    /\ other_files = [student \in OtherStudents |-> NoFile]

NextLegacy ==
    \/ Load
    \/ \E payload \in LongPayloads : SubmitAnswer(payload, "no_key", MaxSessions)

SpecLegacy == InitLegacy /\ [][NextLegacy]_vars

\* long histories: the requests of one student who answers and asks for questions
NextLong ==
    \/ \E payload \in LongPayloads : SubmitAnswer(payload, "no_key", MaxLongSessions)
    \/ \E topic \in Topics : GetQuestion(topic)

SpecLong == Init /\ [][NextLong]_vars

----------------------------------------------------------------------------
(* Properties                                                              *)

\* every profile the program holds: the object at hand and the persisted one
Held == {profile} \cup {disk[i] : i \in 1..Len(disk)}

\* C1: in every reachable state correct <= quizzes, and accuracy is
\* correct/quizzes when quizzes > 0 and 0 when quizzes = 0; the accuracy an
\* answer submission reports is that of the profile it saved.
C1_CorrectAtMostQuizzes ==
    /\ \A p \in Held :
          /\ p.correct <= p.quizzes
          /\ p.quizzes = 0 => accuracy(p) = R(0)
          /\ p.quizzes > 0 => /\ accuracy(p)[1] * p.quizzes = p.correct * accuracy(p)[2]
                              /\ accuracy(p)[2] > 0
    /\ (result.op = "submit_answer" /\ result.status = 200) =>
          result.accuracy[1] * disk[1].quizzes = disk[1].correct * result.accuracy[2]

C1_Witness ==
    /\ result.op = "record"
    /\ profile.quizzes = 2
    /\ profile.correct = 1
    /\ profile.quiz_sessions = 1
    /\ disk = <<profile>>

\* C7: engagement_level is one of the six levels; it is "learning" when
\* quizzes < 2 and one of the other five when quizzes >= 2, both when read
\* from the object and when reported by an answer submission.
C7_LevelRange ==
    LET five == {"highly_engaged", "engaged", "moderate", "struggling", "disengaged"}
        ok(level, quizzes) ==
            /\ level \in five \cup {"learning"}
            /\ quizzes < 2 => level = "learning"
            /\ quizzes >= 2 => level \in five
    IN  /\ \A p \in Held : ok(engagement_level(p), p.quizzes)
        /\ result.op = "engagement_level" => ok(result.value, profile.quizzes)
        /\ (result.op = "submit_answer" /\ result.status = 200) =>
              ok(result.engagement_level, profile.quizzes)

C7_Witness ==
    /\ result.op = "engagement_level"
    /\ profile.quizzes >= 2
    /\ result.value = "struggling"

\* C10: an answer submission whose question id is not in the question index
\* ends in 404, leaves the student's file as it was (absent stays absent) and
\* records nothing: the object is the profile as loaded.
C10_UnknownQuestion ==
    [][ (result'.op = "submit_answer"
         /\ ~QuestionKnown(QUESTIONS, result'.question_id)) =>
           /\ result'.status = 404
           /\ disk' = disk
           /\ profile' = load(disk, Student) ]_vars

C10_Witness ==
    /\ result.op = "submit_answer"
    /\ result.status = 404
    /\ disk # NoFile
    /\ disk[1].quizzes = 1

\* C9: with no topic requested, the question handed out carries the difficulty
\* the first matching rule gives and belongs to that tier (and an empty tier
\* fails in that tier).  The rules, over the engagement level, the pace and
\* the accuracy of the last five records (lifetime accuracy without records):
\* struggling or accuracy < 0.3 -> easy; highly_engaged and accuracy > 0.8 ->
\* hard; fast and accuracy > 0.7 -> hard; slow and accuracy < 0.6 -> easy;
\* otherwise medium.
C9_DifficultyRule ==
    LET p == profile
        n == Len(p.learning_sessions)
        lastFive == {i \in 1..n : i > n - 5}
        hits == Cardinality({i \in lastFive : p.learning_sessions[i].correct})
        \* recent accuracy as num/den, den > 0
        num == IF n > 0 THEN hits ELSE IF p.quizzes > 0 THEN p.correct ELSE 0
        den == IF n > 0 THEN Cardinality(lastFive) ELSE IF p.quizzes > 0 THEN p.quizzes ELSE 1
        level == engagement_level(p)
        pace == learning_pace(p)
        rule == IF level = "struggling" \/ 10 * num < 3 * den THEN "easy"
                ELSE IF level = "highly_engaged" /\ 10 * num > 8 * den THEN "hard"
                ELSE IF pace = "fast" /\ 10 * num > 7 * den THEN "hard"
                ELSE IF pace = "slow" /\ 10 * num < 6 * den THEN "easy"
                ELSE "medium"
    IN  (result.op = "get_question" /\ result.topic = None) =>
           /\ result.level = rule
           /\ result.status = 200 =>
                 /\ result.q.difficulty = rule
                 /\ \E i \in 1..Len(QUESTIONS[rule]) : QUESTIONS[rule][i].id = result.q.id

\* the window of five decides: more than five records, "easy" by the accuracy
\* of the last five, though the lifetime accuracy is 0.6 or more and the
\* student is not struggling
C9_Witness ==
    /\ result.op = "get_question"
    /\ result.topic = None
    /\ result.status = 200
    /\ result.q.difficulty = "easy"
    /\ Len(profile.learning_sessions) > 5
    /\ engagement_level(profile) # "struggling"
    /\ 10 * profile.correct >= 6 * profile.quizzes

\* C8: the stored learning style changes only in a step after which the
\* profile holds at least 10 session records, and a profile with fewer than 10
\* records has the style "unknown" it was created with.
C8_StyleOnlyFromTen ==
    /\ [](\A p \in Held : Len(p.learning_sessions) < 10 => p.learning_style = "unknown")
    /\ [][ /\ profile'.learning_style # load(disk, Student).learning_style
              => Len(profile'.learning_sessions) >= 10
           /\ load(disk', Student).learning_style # load(disk, Student).learning_style
              => Len(load(disk', Student).learning_sessions) >= 10 ]_vars

\* the tenth record has just been saved and it set a style
C8_Witness ==
    /\ result.op = "submit_answer"
    /\ result.status = 200
    /\ Len(disk[1].learning_sessions) = 10
    /\ disk[1].learning_style \in {"visual", "auditory", "kinesthetic", "reading"}
    /\ result.learning_style = disk[1].learning_style

\* C2 (as claimed, for every payload the endpoint accepts): a step that
\* records a session leaves no counter smaller, puts the new record last and
\* keeps the earlier records as they were.
C2_RecordingMonotonic ==
    [][ LET before == IF result'.op = "record" THEN profile ELSE load(disk, Student)
            after == profile'
        IN  (/\ result'.op \in {"record", "submit_answer"}
             /\ Len(after.learning_sessions) = Len(before.learning_sessions) + 1) =>
               /\ after.quizzes >= before.quizzes
               /\ after.correct >= before.correct
               /\ after.total_response_time >= before.total_response_time
               /\ after.total_answer_changes >= before.total_answer_changes
               /\ after.total_hints_used >= before.total_hints_used
               /\ after.total_skipped >= before.total_skipped
               /\ SubSeq(after.learning_sessions, 1, Len(before.learning_sessions))
                     = before.learning_sessions ]_vars

\* C3 (as claimed): a question handed out is none of the questions of the last
\* 10 session records, unless leaving those out empties the candidate pool.
C3_NotAmongLastTen ==
    (result.op = "get_question" /\ result.status = 200) =>
        LET p == profile
            last == LastN(p.learning_sessions, 10)
            lastTen == {last[i].question_id : i \in 1..Len(last)}
            pool == AfterTopic(QUESTIONS,
                               ChooseLevel(engagement_level(p), learning_pace(p),
                                           RecentAccuracy(p)),
                               result.topic).available
        IN  result.q.id \in lastTen =>
               \A i \in 1..Len(pool) : pool[i].id \in lastTen

\* C4 (as claimed): when a topic is requested and some tier holds a question
\* of that topic, the question handed out has that topic.
C4_TopicRespected ==
    (/\ result.op = "get_question"
     /\ result.status = 200
     /\ TopicGiven(result.topic)
     /\ \E e \in QUESTION_INDEX(QUESTIONS) : e.topic = result.topic) =>
        result.q.topic = result.topic

\* C5 (as claimed): when the final candidate pool is empty the request ends in
\* an explicit "no question available" outcome, not in the IndexError of a
\* choice from an empty list.
C5_EmptyPoolExplicit ==
    (/\ result.op = "get_question"
     /\ CandidatePool(QUESTIONS, profile, result.topic).available = <<>>) =>
        /\ result.raised # "IndexError"
        /\ result.raised = "NoQuestionAvailable"

\* C6 (as claimed): the engagement score a profile stores, and the one its
\* file holds, lies in [0, 100].
C6_ScoreInRange ==
    \A p \in Held :
        /\ RLe(R(0), p.engagement_score)
        /\ RLe(p.engagement_score, R(100))

C14_MissingFieldsTakeFreshDefaults ==
    (result.op = "load" /\ disk # NoFile) =>
        /\ DOMAIN profile = DOMAIN NewProfile(Student)
        /\ \A f \in DOMAIN NewProfile(Student) :
              profile[f] = IF f \in DOMAIN disk[1] THEN disk[1][f]
                           ELSE NewProfile(Student)[f]

\* C14 (amended): as above, except that a missing quiz_sessions becomes 1, the
\* count load gives a student whose file predates the field.
C14_MissingFieldsDefaulted ==
    (result.op = "load" /\ disk # NoFile) =>
        /\ DOMAIN profile = DOMAIN NewProfile(Student)
        /\ \A f \in DOMAIN NewProfile(Student) :
              profile[f] = IF f \in DOMAIN disk[1] THEN disk[1][f]
                           ELSE IF f = "quiz_sessions" THEN 1
                           ELSE NewProfile(Student)[f]

C14_Witness ==
    /\ result.op = "load"
    /\ disk # NoFile
    /\ DOMAIN disk[1] = {"name"}
    /\ profile.quiz_sessions = 1
    /\ profile.quizzes = 0
    /\ profile.learning_sessions = <<>>
    /\ profile.topic_preferences = EmptyMap

\* C11: a submission for a known question always completes with a feedback
\* string (one of the two placeholders of call_llm or the text of the reply),
\* and by then the file holds the profile with the new session appended.
C11_SubmissionCompletesWithFeedback ==
    [][ (result'.op = "submit_answer"
         /\ QuestionKnown(QUESTIONS, result'.question_id)) =>
           LET before == load(disk, Student)
           IN  /\ result'.status = 200
               /\ result'.feedback \in {"[Gemini API key not set]",
                                        "[Gemini request failed: ...]",
                                        "feedback text"}
               /\ disk' # NoFile
               /\ Len(disk'[1].learning_sessions) = Len(before.learning_sessions) + 1
               /\ disk'[1].learning_sessions[Len(disk'[1].learning_sessions)].question_id
                     = result'.question_id ]_vars

\* C12: a submitted answer that equals the accepted answer after trimming and
\* case-folding is graded correct: one record with correct = true is appended
\* after the earlier ones, quizzes and correct rise by one each, and the
\* response reports the accuracy computed from the new counters.
C12_MatchingAnswerIsCorrect ==
    [][ (result'.op = "submit_answer"
         /\ QuestionKnown(QUESTIONS, result'.question_id)
         /\ StrLower(StrStrip(profile'.learning_sessions[Len(profile'.learning_sessions)].answer))
               = StrLower(StrStrip(QuestionIndexGet(QUESTIONS, result'.question_id).answer))) =>
           LET before == load(disk, Student)
               n      == Len(before.learning_sessions)
           IN  /\ result'.status = 200
               /\ result'.correct
               /\ result'.accuracy = Frac(before.correct + 1, before.quizzes + 1)
               /\ disk' # NoFile
               /\ Len(disk'[1].learning_sessions) = n + 1
               /\ disk'[1].learning_sessions[n + 1].correct
               /\ SubSeq(disk'[1].learning_sessions, 1, n) = before.learning_sessions
               /\ disk'[1].quizzes = before.quizzes + 1
               /\ disk'[1].correct = before.correct + 1 ]_vars

\* C20: a recording with response time, answer changes and hints used all
\* >= 0 (the legacy record passes 0 for each) raises nothing and leaves the
\* file holding the profile with the new session as its last record, also
\* for the tenth and later sessions of a history whose response times are 0.
C20_RecordingCompletes ==
    [][ (\/ result'.op = "record"
         \/ /\ result'.op = "submit_answer"
            /\ QuestionKnown(QUESTIONS, result'.question_id)) =>
           LET before == IF result'.op = "record" THEN profile
                         ELSE load(disk, Student)
               n      == Len(before.learning_sessions)
           IN  /\ result'.raised = None
               /\ disk' # NoFile
               /\ Len(disk'[1].learning_sessions) = n + 1
               /\ SubSeq(disk'[1].learning_sessions, 1, n) = before.learning_sessions ]_vars

\* C15: in every profile held in memory or in the file, each counter equals
\* the aggregate over the session records: quizzes their number, correct and
\* total_skipped the numbers of records with that flag, and the three totals
\* the sums of response_time, answer_changes and hints_used.
C15_CountersMatchRecords ==
    \A p \in Held :
        LET s == p.learning_sessions
        IN  /\ p.quizzes = Len(s)
            /\ p.correct = Cardinality({i \in 1..Len(s) : s[i].correct})
            /\ p.total_skipped = Cardinality({i \in 1..Len(s) : s[i].skipped})
            /\ p.total_response_time = SumSeq(Field(s, "response_time"))
            /\ p.total_answer_changes = SumSeq(Field(s, "answer_changes"))
            /\ p.total_hints_used = SumSeq(Field(s, "hints_used"))

C15_Witness ==
    /\ result.op = "load"
    /\ disk = <<profile>>
    /\ profile.quiz_sessions = 1
    /\ profile.quizzes = 2
    /\ profile.correct = 1
    /\ profile.total_skipped = 1
    /\ profile.total_response_time > 0
    /\ profile.total_hints_used > 0
    /\ profile.total_answer_changes > 0

\* ---- the read-only endpoints and the purge ----

get_student_analytics_saving(file) ==
    LET p0 == load(file, Student)
    IN  [profile |-> AfterEngagementRead(p0), disk |-> save(AfterEngagementRead(p0)),
         result |-> [op |-> "analytics", total_quizzes |-> p0.quizzes,
                     engagement_level |-> engagement_level(p0),
                     learning_style |-> p0.learning_style,
                     quiz_sessions |-> p0.quiz_sessions]]

\* GET /analytics/{student}: load, then get_learning_insights, which reads
\* engagement_level (and so refreshes the score of the loaded object) and
\* writes nothing
get_student_analytics(file) ==
    LET p0 == load(file, Student)
    IN  [profile |-> AfterEngagementRead(p0), disk |-> file,
         result |-> [op |-> "analytics", total_quizzes |-> p0.quizzes,
                     engagement_level |-> engagement_level(p0),
                     learning_style |-> p0.learning_style,
                     quiz_sessions |-> p0.quiz_sessions]]

\* max(scores, key=scores.get): the first key, in the order the dict was
\* built, that carries the greatest score
FirstMaxStyle(sc) ==
    IF RLe(sc.auditory, sc.visual) /\ RLe(sc.kinesthetic, sc.visual)
       /\ RLe(sc.reading, sc.visual)
    THEN "visual"
    ELSE IF RLe(sc.kinesthetic, sc.auditory) /\ RLe(sc.reading, sc.auditory)
    THEN "auditory"
    ELSE IF RLe(sc.reading, sc.kinesthetic)
    THEN "kinesthetic"
    ELSE "reading"

\* StudentProfile.get_learning_style_analysis: the stored style below ten
\* sessions, the style of the greatest score from ten sessions on
get_learning_style_analysis(p) ==
    IF ~StyleThresholdReached(p)
    THEN [raised |-> None, primary_style |-> p.learning_style, confidence |-> "low"]
    ELSE IF StyleDivisionByZero(p)
    THEN [raised |-> "ZeroDivisionError"]
    ELSE [raised |-> None, primary_style |-> FirstMaxStyle(style_scores(p))]

AnalyticsRequest ==
    /\ \E o \in {get_student_analytics(disk)} :
          /\ profile' = o.profile
          /\ disk' = o.disk
          /\ result' = o.result
    /\ UNCHANGED <<QUESTIONS, requests, other_files>>

\* GET /learning-style/{student}: load, then the analysis; every exception
\* becomes a 500
LearningStyleRequest ==
    /\ profile' = load(disk, Student)
    /\ \E a \in {get_learning_style_analysis(profile')} :
          result' = IF a.raised # None
                    THEN [op |-> "learning_style", status |-> 500, raised |-> a.raised]
                    ELSE [op |-> "learning_style", status |-> 200, raised |-> None,
                          primary_style |-> a.primary_style]
    /\ UNCHANGED <<QUESTIONS, disk, requests, other_files>>

\* DELETE /clear-student/{student_name}: unlinks the file when it exists
ClearStudentData ==
    /\ disk' = NoFile
    /\ result' = [op |-> "clear_student_data", found |-> disk # NoFile]
    /\ UNCHANGED <<QUESTIONS, profile, requests, other_files>>

NextFrame ==
    \/ Step(LongPayloads, {"no_key"}, MaxSessions)
    \/ AnalyticsRequest
    \/ LearningStyleRequest
    \/ ClearStudentData

SpecFrame == Init /\ [][NextFrame]_vars

\* C16: a question request, an analytics or learning-style request, a read of
\* engagement_level and a load leave the file as it was (a load of a name
\* with no file creates none); a step after which the file holds a profile
\* other than before is a recording or the closing of a quiz session; and
\* closing a quiz session writes the profile it was called on with
\* quiz_sessions one higher and quizzes, correct, the totals, the session
\* records, the topic map and the progression list as they were.
C16_PersistedChangesOnlyByRecordingOrClosing ==
    [][ /\ result'.op \in {"load", "get_question", "analytics", "learning_style",
                           "engagement_level"} => disk' = disk
        /\ (disk' # disk /\ disk' # NoFile) =>
               result'.op \in {"record", "submit_answer", "end_quiz_session",
                               "end_quiz_session_request"}
        /\ result'.op \in {"end_quiz_session", "end_quiz_session_request"} =>
               LET before == IF result'.op = "end_quiz_session" THEN profile
                             ELSE load(disk, Student)
               IN  /\ disk' # NoFile
                   /\ disk'[1].quiz_sessions = before.quiz_sessions + 1
                   /\ \A f \in {"quizzes", "correct", "total_skipped",
                                "total_response_time", "total_answer_changes",
                                "total_hints_used", "learning_sessions",
                                "topic_preferences", "difficulty_progression"} :
                         /\ disk'[1][f] = before[f]
                         /\ (result'.op = "end_quiz_session_request" /\ disk # NoFile)
                               => disk'[1][f] = disk[1][f] ]_vars

C16_Witness ==
    /\ result.op = "analytics"
    /\ disk # NoFile
    /\ disk[1].quiz_sessions = 1
    /\ disk[1].quizzes = 2
    /\ result.total_quizzes = 2
    /\ result.quiz_sessions = 1
    /\ profile.engagement_score # disk[1].engagement_score

\* C18: the level a read of engagement_level returns depends on the counters
\* and the session records alone: the same profile with any other stored
\* engagement_score, learning_style and improvement_trend gives the same
\* level; the read changes no counter and no session record, and a second
\* read right after it, on the profile the first one left, gives the same level.
C18_EngagementLevelDeterministic ==
    [][ result'.op = "engagement_level" =>
           /\ \A score \in {R(0), Frac(3, 10), R(100)},
                 style \in {"unknown", "visual"},
                 trend \in {R(0 - 100), R(25)} :
                    engagement_level([profile EXCEPT !.engagement_score = score,
                                                     !.learning_style = style,
                                                     !.improvement_trend = trend])
                       = result'.value
           /\ engagement_level(profile') = result'.value
           /\ \A f \in {"quizzes", "correct", "total_skipped", "total_response_time",
                        "total_answer_changes", "total_hints_used",
                        "learning_sessions"} : profile'[f] = profile[f] ]_vars

C18_Witness ==
    /\ result.op = "engagement_level"
    /\ result.value \notin {"learning"}
    /\ profile.quizzes = 2
    /\ disk # NoFile
    /\ disk[1].learning_sessions = profile.learning_sessions
    /\ disk[1].engagement_score # profile.engagement_score

\* C19: a load of a name that has no file returns a profile with every counter
\* zero, learning style "unknown", no session record, accuracy 0, engagement
\* level "learning" and a learning pace among fast, moderate and slow (the
\* average response time of no quiz is the guarded 0), and creates no file.
C19_FirstLoadIsFresh ==
    [][ (result'.op = "load" /\ disk = NoFile) =>
           /\ \A f \in {"quizzes", "correct", "total_response_time",
                        "total_answer_changes", "total_hints_used", "total_skipped",
                        "quiz_sessions", "streak_days"} : profile'[f] = 0
           /\ profile'.name = Student
           /\ profile'.learning_style = "unknown"
           /\ profile'.learning_sessions = <<>>
           /\ accuracy(profile') = R(0)
           /\ engagement_level(profile') = "learning"
           /\ average_response_time(profile') = R(0)
           /\ learning_pace(profile') \in {"fast", "moderate", "slow"}
           /\ disk' = NoFile ]_vars

C19_Witness ==
    /\ result.op = "load"
    /\ disk = NoFile
    /\ profile = NewProfile(Student)
    /\ learning_pace(profile) = "fast"
    /\ engagement_level(profile) = "learning"

\* ---- two submissions for one student at the same time ----

\* json.dump(..., indent=2): the number of characters of the text written
RECURSIVE DecimalDigits(_)
DecimalDigits(n) == IF n < 10 THEN 1 ELSE 1 + DecimalDigits(n \div 10)

\* the digits repr prints after the point: those of the decimal expansion, at
\* most ReprDigits of them, and a single 0 for a whole number (a float is
\* held as the exact fraction, so where binary rounding shows in repr the
\* digits differ; two texts with the same numbers differ in length exactly
\* as their strings do)
ReprDigits == 16

RECURSIVE FractionDigits(_, _, _)
FractionDigits(rem, d, k) ==
    IF rem = 0 \/ k = ReprDigits THEN 0
    ELSE 1 + FractionDigits((rem * 10) % d, d, k + 1)

\* the text of the number sign * n / d: the sign, the whole part and, for a
\* float, the point and the digits after it
NumberTextLength(negative, n, d, float) ==
    (IF negative THEN 1 ELSE 0) + DecimalDigits(n \div d)
    + (IF ~float THEN 0
       ELSE IF n % d = 0 THEN 2
       ELSE 1 + FractionDigits(n % d, d, 0))

RECURSIVE SumValues(_)
SumValues(f) ==
    IF DOMAIN f = {} THEN 0
    ELSE LET k == CHOOSE k \in DOMAIN f : TRUE
         IN  f[k] + SumValues([x \in DOMAIN f \ {k} |-> f[x]])

\* an array or object of n items at nesting depth: the brackets, a newline and
\* the indentation before every item and before the closing bracket, and the
\* commas between the items; [] and {} when empty
Bracketed(n, depth, items) ==
    IF n = 0 THEN 2
    ELSE 1 + n * (1 + 2 * (depth + 1)) + items + (n - 1) + 1 + 2 * depth + 1

RECURSIVE json_text_length(_, _)
json_text_length(j, depth) ==
    IF j.json = "string" THEN Len(j.v) + 2
    ELSE IF j.json = "boolean" THEN (IF j.v THEN 4 ELSE 5)
    ELSE IF j.json = "number"
    THEN NumberTextLength(j.v < 0, IF j.v < 0 THEN 0 - j.v ELSE j.v, 1, FALSE)
    ELSE IF j.json = "float"
    THEN NumberTextLength(j.v[1] < 0, IF j.v[1] < 0 THEN 0 - j.v[1] ELSE j.v[1],
                          j.v[2], TRUE)
    ELSE IF j.json = "whole float"
    THEN NumberTextLength(j.v < 0, IF j.v < 0 THEN 0 - j.v ELSE j.v, 1, TRUE)
    ELSE IF j.json = "array"
    THEN Bracketed(Len(j.v), depth,
                   SumValues([i \in DOMAIN j.v |-> json_text_length(j.v[i], depth + 1)]))
    ELSE Bracketed(Cardinality(DOMAIN j.v), depth,
                   SumValues([k \in DOMAIN j.v |->
                                 Len(k) + 4 + json_text_length(j.v[k], depth + 1)]))

\* a file json.load rejects: one that open("w") has emptied and nobody has
\* written yet, and one whose text is a whole dump followed by what is left
\* of a longer text written before it
EmptyFile == <<[corrupt |-> "empty"]>>

TornFile(head, tail) == <<[corrupt |-> "extra data", head |-> head, tail |-> tail]>>

Unreadable(file) == file # NoFile /\ "corrupt" \in DOMAIN file[1]

Torn(file) == Unreadable(file) /\ file[1].corrupt = "extra data"

TextLength(file) ==
    IF file = NoFile \/ file = EmptyFile THEN 0
    ELSE IF Torn(file)
    THEN json_text_length(json_dump(file[1].head), 0) + file[1].tail
    ELSE json_text_length(json_dump(file[1]), 0)

\* fh.write at offset 0 of a handle opened with "w": the new text replaces
\* the first characters of what the file holds and leaves the rest
Written(new, old_length, new_length) ==
    IF new_length >= old_length THEN new
    ELSE TornFile(new[1], old_length - new_length)

\* the submissions of the race: spellings of one accepted answer, so that
\* the texts of two writers differ in the answer they record and in nothing else
RacePayloads ==
    { Payload(2, <<" ", "P", "A", "R", "I", "S", " ">>, 30, 0, 0),
      Payload(2, <<" ", "p", "a", "r", "i", "s">>, 30, 0, 0),
      Payload(2, <<"P", "a", "r", "i", "s">>, 30, 0, 0),
      Payload(2, <<"p", "a", "r", "i", "s">>, 30, 0, 0) }

\* the file at StudentProfile(name).path
FileOf(student) == IF student = Student THEN disk ELSE other_files[student]

\* submit_answer up to the call of save: load (json.load raises on a file it
\* cannot parse), the lookup, the grading and record_session in memory
BeginSubmit(r, payload) ==
    /\ requests[r].pc = "idle"
    /\ IF Unreadable(FileOf(payload.student))
       THEN /\ requests' = [requests EXCEPT
                               ![r] = [pc |-> "failed", student |-> payload.student]]
            /\ result' = [op |-> "submit_answer", question_id |-> payload.question_id,
                          status |-> 500, raised |-> "JSONDecodeError"]
       ELSE \E o \in {submit_answer(QUESTIONS, FileOf(payload.student), payload, "no_key")} :
               IF o.result.status = 200
               THEN /\ requests' = [requests EXCEPT
                                       ![r] = [pc |-> "recorded",
                                               student |-> payload.student,
                                               file |-> o.disk, response |-> o.result]]
                    /\ result' = result
               ELSE /\ requests' = [requests EXCEPT
                                       ![r] = [pc |-> "failed", student |-> payload.student]]
                    /\ result' = o.result
    /\ UNCHANGED <<QUESTIONS, disk, profile, other_files>>

\* save, line 267: open("w") creates the file or empties it
OpenForWrite(r) ==
    /\ requests[r].pc = "recorded"
    /\ IF requests[r].student = Student
       THEN disk' = EmptyFile /\ other_files' = other_files
       ELSE disk' = disk /\ other_files' = [other_files EXCEPT ![requests[r].student] = EmptyFile]
    /\ requests' = [requests EXCEPT ![r].pc = "opened"]
    /\ UNCHANGED <<QUESTIONS, profile, result>>

WriteAndClose_into_first_file(r) ==
    /\ requests[r].pc = "opened"
    /\ \E text \in {Written(requests[r].file, TextLength(disk),
                             TextLength(requests[r].file))} :
          disk' = text /\ other_files' = other_files
    /\ requests' = [requests EXCEPT
                       ![r] = [pc |-> "done", student |-> requests[r].student,
                               file |-> requests[r].file,
                               seq |-> 1 + Cardinality({s \in Requests :
                                                           requests[s].pc = "done"})]]
    /\ result' = requests[r].response
    /\ UNCHANGED <<QUESTIONS, profile>>

\* save, line 268 and the end of the with block: the text reaches the file
\* when the handle is closed; then the feedback and the response
WriteAndClose(r) ==
    /\ requests[r].pc = "opened"
    /\ \E text \in {Written(requests[r].file, TextLength(FileOf(requests[r].student)),
                             TextLength(requests[r].file))} :
          IF requests[r].student = Student
          THEN disk' = text /\ other_files' = other_files
          ELSE disk' = disk /\ other_files' = [other_files EXCEPT ![requests[r].student] = text]
    /\ requests' = [requests EXCEPT
                       ![r] = [pc |-> "done", student |-> requests[r].student,
                               file |-> requests[r].file,
                               seq |-> 1 + Cardinality({s \in Requests :
                                                           requests[s].pc = "done"})]]
    /\ result' = requests[r].response
    /\ UNCHANGED <<QUESTIONS, profile>>

NextRace ==
    \/ \E r \in Requests, payload \in RacePayloads : BeginSubmit(r, payload)
    \/ \E r \in Requests : OpenForWrite(r)
    \/ \E r \in Requests : WriteAndClose(r)

SpecRace == Init /\ [][NextRace]_vars

\* C17: while two submissions interleave, the file never holds text of both
\* writers; and once both are over, the file is the snapshot of the one whose
\* save came last.
C17_LastWriterWins ==
    /\ ~Torn(disk)
    /\ LET done == {r \in Requests : requests[r].pc = "done"}
       IN  ((\A r \in Requests : requests[r].pc \in {"done", "failed"}) /\ done # {}) =>
              \E r \in done :
                 /\ \A s \in done : requests[s].seq <= requests[r].seq
                 /\ disk = requests[r].file

\* C21: after a recording that leaves two or more quizzes, the engagement
\* score in the file is the weighted score of engagement_level (after the
\* learning-curve adjustment and the clamp), so the level is the threshold
\* mapping of the stored score.
C21_StoredScoreGivesLevel ==
    [][ (/\ result'.op \in {"record", "submit_answer"}
         /\ result'.raised = None
         /\ disk' # NoFile
         /\ disk'[1].quizzes >= 2) =>
           /\ disk'[1].engagement_score = EngagementRaw(disk'[1])
           /\ engagement_level(disk'[1]) = LevelOfScore(disk'[1].engagement_score) ]_vars

\* ---- histories of one geometry question, answered right or wrong in ten seconds ----

NextStyle ==
    \/ \E payload \in {Payload(1, <<"4">>, 10, 0, 0), Payload(1, <<"5">>, 10, 0, 0)} :
          SubmitAnswer(payload, "no_key", MaxLongSessions)
    \/ LearningStyleRequest

SpecStyle == Init /\ [][NextStyle]_vars

\* C22: from the tenth session on, the style a recording stores is, among the
\* styles whose score is the highest, the one that comes first in the order
\* visual, auditory, kinesthetic, reading.
C22_TieGoesToFirstStyle ==
    [][ (/\ result'.op = "submit_answer"
         /\ result'.status = 200
         /\ Len(disk'[1].learning_sessions) >= 10) =>
           LET sc     == style_scores(disk'[1])
               order  == <<"visual", "auditory", "kinesthetic", "reading">>
               top(i) == \A j \in 1..4 : RLe(sc[order[j]], sc[order[i]])
           IN  \E i \in 1..4 :
                  /\ top(i)
                  /\ \A j \in 1..(i - 1) : ~top(j)
                  /\ disk'[1].learning_style = order[i] ]_vars

\* C23: with ten or more records in the file a recording left, the
\* primary_style of the learning-style analysis is the learning_style the
\* recording stored.
C23_AnalysisAgreesWithStoredStyle ==
    [][ (/\ result'.op = "learning_style"
         /\ result'.status = 200
         /\ disk # NoFile
         /\ Len(disk[1].learning_sessions) >= 10) =>
           result'.primary_style = disk[1].learning_style ]_vars

C24_SkipNeverCorrect ==
    [][ (result'.op = "submit_answer" /\ result'.status = 200) =>
           LET s == disk'[1].learning_sessions[Len(disk'[1].learning_sessions)]
           IN  ~(s.skipped /\ s.correct) ]_vars

\* C25: in every profile held in memory or in the file, the topics of
\* topic_preferences are the topics of the session records, and for each of
\* them total is the number of records of the topic (so at least 1), correct
\* the number of those that are correct (so at most total), and the totals
\* add up to quizzes.
C25_TopicCountsMatchRecords ==
    \A p \in Held :
        LET s  == p.learning_sessions
            tp == p.topic_preferences
        IN  /\ DOMAIN tp = {s[i].topic : i \in 1..Len(s)}
            /\ \A t \in DOMAIN tp :
                  /\ tp[t].total = Cardinality({i \in 1..Len(s) : s[i].topic = t})
                  /\ tp[t].correct =
                        Cardinality({i \in 1..Len(s) : s[i].topic = t /\ s[i].correct})
                  /\ tp[t].correct <= tp[t].total
                  /\ tp[t].total >= 1
            /\ SumValues([t \in DOMAIN tp |-> tp[t].total]) = p.quizzes

C25_Witness ==
    /\ result.op = "submit_answer"
    /\ result.status = 200
    /\ disk # NoFile
    /\ DOMAIN disk[1].topic_preferences = {"geometry", "geography"}
    /\ disk[1].topic_preferences["geometry"].total = 1
    /\ disk[1].topic_preferences["geometry"].correct = 0
    /\ disk[1].topic_preferences["geography"].correct = 1
    /\ disk[1].quizzes = 2

\* ---- steady histories: every answer right, given in thirty seconds ----

SteadyPayloads ==
    << Payload(1, <<"4">>, 30, 0, 0),
       Payload(4, <<"p", "a", "c", "i", "f", "i", "c">>, 30, 0, 0) >>

StepSteady(max) ==
    \/ \E i \in DOMAIN SteadyPayloads : SubmitAnswer(SteadyPayloads[i], "no_key", max)
    \/ Load

SpecSteady == Init /\ [][StepSteady(MaxLongSessions)]_vars

\* the file after n steady submissions, the easy and the hard question in turn
RECURSIVE FileAfter(_)
FileAfter(n) ==
    IF n = 0 THEN NoFile
    ELSE CHOOSE file \in {submit_answer(BankFull, before, SteadyPayloads[1 + (n % 2)],
                                        "no_key").disk : before \in {FileAfter(n - 1)}} : TRUE

\* a student who comes back with a long history on file
InitProgress ==
    /\ QUESTIONS = BankFull
    /\ disk \in {FileAfter(n) : n \in (MaxProgressSessions - 5)..(MaxProgressSessions - 3)}
    /\ profile = NewProfile(Student)
    /\ result = [op |-> "init"]
    /\ requests = [r \in Requests |-> [pc |-> "idle"]]
    /\ other_files = [student \in OtherStudents |-> NoFile]

SpecProgress == InitProgress /\ [][StepSteady(MaxProgressSessions)]_vars

\* C26: in every profile held in memory or in the file, difficulty_progression
\* has at most 20 entries and lists, oldest first, the difficulties of the
\* last min(20, n) of the n session records.
C26_ProgressionIsRecentDifficulties ==
    \A p \in Held :
        LET s  == p.learning_sessions
            dp == p.difficulty_progression
            n  == Len(s)
            k  == IF n < 20 THEN n ELSE 20
        IN  /\ Len(dp) <= 20
            /\ dp = [i \in 1..k |-> s[n - k + i].difficulty]

C26_Witness ==
    /\ result.op = "submit_answer" /\ result.status = 200
    /\ Len(disk[1].learning_sessions) = 22
    /\ Len(disk[1].difficulty_progression) = 20
    /\ disk[1].learning_sessions[20].difficulty = "easy"
    /\ disk[1].learning_sessions[22].difficulty = "hard"
    /\ disk[1].difficulty_progression[18] = "easy"
    /\ disk[1].difficulty_progression[20] = "hard"

----------------------------------------------------------------------------
(* The strengths and concerns of _get_engagement_insights.                 *)

_get_engagement_insights(p) ==
    [ strengths |->
          (IF RGt(accuracy(p), Frac(8, 10)) THEN {"High accuracy rate"} ELSE {})
          \cup (IF RGt(consistency_score(p), R(80))
                THEN {"Consistent performance"} ELSE {})
          \cup (IF RGt(learning_momentum(p), R(10))
                THEN {"Improving performance trend"} ELSE {})
          \cup (IF RLt(skip_rate(p), Frac(1, 10))
                THEN {"Low skip rate - good persistence"} ELSE {})
          \cup (IF RLt(hint_dependency(p), Frac(3, 10))
                THEN {"Independent problem solving"} ELSE {}),
      concerns |->
          (IF RGt(skip_rate(p), Frac(3, 10))
           THEN {"High skip rate - may indicate difficulty or disengagement"} ELSE {})
          \cup (IF RGt(hint_dependency(p), Frac(7, 10))
                THEN {"Over-reliance on hints - may need confidence building"} ELSE {})
          \cup (IF RGt(hesitation_score(p), R(2))
                THEN {"High hesitation - may indicate uncertainty"} ELSE {})
          \cup (IF RLt(learning_momentum(p), R(-10))
                THEN {"Declining performance trend"} ELSE {})
          \cup (IF RLt(consistency_score(p), R(40))
                THEN {"Inconsistent performance"} ELSE {}) ]

\* C28: consistency_score is exactly 50 for a profile with fewer than 3
\* session records and lies between 75 and 100 otherwise, so the concern
\* "Inconsistent performance" (consistency_score < 40) is never reported.
C28_ConsistencyBetween75And100 ==
    \A p \in Held :
        /\ Len(p.learning_sessions) < 3 => consistency_score(p) = R(50)
        /\ Len(p.learning_sessions) >= 3 =>
              /\ RGe(consistency_score(p), R(75))
              /\ RLe(consistency_score(p), R(100))
        /\ "Inconsistent performance" \notin _get_engagement_insights(p).concerns

C28_Witness ==
    /\ result.op = "submit_answer" /\ result.status = 200
    /\ Len(disk[1].learning_sessions) = 10
    /\ CountCorrect(disk[1].learning_sessions) = 5
    /\ consistency_score(disk[1]) = R(75)
    /\ "Consistent performance" \notin _get_engagement_insights(disk[1]).strengths

----------------------------------------------------------------------------
(* Submissions of two students at the same time.                           *)

NextStudents ==
    \/ \E r \in Requests, student \in {Student} \cup OtherStudents,
          payload \in {Payload(2, <<" ", "P", "A", "R", "I", "S", " ">>, 30, 0, 0),
                       Payload(2, <<"P", "a", "r", "i", "s">>, 30, 0, 0),
                       Payload(1, <<"5">>, 30, 0, 0)} :
          BeginSubmit(r, [payload EXCEPT !.student = student])
    \/ \E r \in Requests : OpenForWrite(r)
    \/ \E r \in Requests : WriteAndClose(r)

SpecStudents == Init /\ [][NextStudents]_vars

\* C29: however the load, record and save steps of two submissions
\* interleave, every profile a student's file holds has quizzes equal to
\* the number of its session records and correct at most quizzes; and a
\* student's file changes only in a save step of a submission of that student.
C29_FilesConsistentAndSeparate ==
    /\ [](\A student \in {Student} \cup OtherStudents :
             (FileOf(student) # NoFile /\ ~Unreadable(FileOf(student))) =>
                /\ FileOf(student)[1].quizzes = Len(FileOf(student)[1].learning_sessions)
                /\ FileOf(student)[1].correct <= FileOf(student)[1].quizzes)
    /\ [][\A student \in {Student} \cup OtherStudents :
             FileOf(student)' # FileOf(student) =>
                \E r \in Requests :
                   /\ requests[r].pc \in {"recorded", "opened"}
                   /\ requests[r].student = student
                   /\ requests'[r].pc # requests[r].pc ]_vars

C29_Witness ==
    /\ requests[1].pc = "done" /\ requests[1].student = Student
    /\ requests[2].pc = "done" /\ requests[2].student = "bob"
    /\ requests[1].seq < requests[2].seq
    /\ disk # NoFile /\ ~Unreadable(disk)
    /\ disk[1].name = Student /\ disk[1].quizzes = 1 /\ disk[1].correct = 0
    /\ other_files["bob"] # NoFile /\ ~Unreadable(other_files["bob"])
    /\ other_files["bob"][1].name = "bob" /\ other_files["bob"][1].correct = 1

\* C30: a profile with exactly 10 session records, all correct, each with
\* response time 30, no answer changes, no hints and no skips, has
\* recent_performance 1, consistency_score 100, learning_momentum 0 and
\* improvement_trend 0, and its engagement level is engaged or highly_engaged.
C30_TenSteadyCorrectSessions ==
    \A p \in Held :
        (/\ Len(p.learning_sessions) = 10
         /\ p.quizzes = 10
         /\ \A i \in 1..10 :
               /\ p.learning_sessions[i].correct
               /\ p.learning_sessions[i].response_time = 30
               /\ p.learning_sessions[i].answer_changes = 0
               /\ p.learning_sessions[i].hints_used = 0
               /\ ~p.learning_sessions[i].skipped) =>
            /\ recent_performance(p) = R(1)
            /\ consistency_score(p) = R(100)
            /\ learning_momentum(p) = R(0)
            /\ p.improvement_trend = R(0)
            /\ engagement_level(p) \in {"engaged", "highly_engaged"}

C30_Witness ==
    /\ result.op = "submit_answer" /\ result.status = 200
    /\ disk # NoFile
    /\ Len(disk[1].learning_sessions) = 10
    /\ disk[1].correct = 10
    /\ disk[1].total_response_time = 300
    /\ disk[1].learning_sessions[1].difficulty = "easy"
    /\ disk[1].learning_sessions[10].difficulty = "hard"
    /\ disk[1].improvement_trend = R(0)
    /\ engagement_level(disk[1]) = "highly_engaged"

====
